---- MODULE Spec2Model ----
(***************************************************************************)
(* Model of wargame.py: the command loop of main(), the lifecycle state    *)
(* machine of Game, the get/set/quit actions and GameConfig.               *)
(*                                                                         *)
(* Text is modelled as sequences of characters, so that str.strip,         *)
(* shlex.split, int() and repr() are computed character by character as    *)
(* the Python library computes them.  A character is a string: a printable *)
(* ASCII character, the tab, the newline, the carriage return and the form *)
(* feed are written as themselves (strings of length 1); every other       *)
(* character is named by its Python escape in lower case: \xNN below       *)
(* U+0100, \uNNNN below U+10000, \UNNNNNNNN from there on (the escape      *)
(* character is the string \x1b, four characters long, standing for one    *)
(* character of the text).  The classes of characters are those of the     *)
(* Unicode database of the interpreter (version 14.0).                     *)
(*                                                                         *)
(* The user interrupt can arrive at any point of main(): while input()     *)
(* blocks, between two assignments of a setter, or while a line is being   *)
(* written.  Every change of the program's state goes through a setter     *)
(* that assigns and then logs, so a call that is cut short has performed   *)
(* an initial part of its sequence of assignments and writes.              *)
(***************************************************************************)
EXTENDS Integers, Sequences, FiniteSets, TLC

(***************************************************************************)
(* Bounds of the model.                                                    *)
(***************************************************************************)
\* number of input() calls explored in one session
MaxReads == 3

(***************************************************************************)
(* Module constants, wargame.py lines 13-21.                               *)
(***************************************************************************)
MAX_EDGE == 20
MIN_EDGE == 2
EDGE == MAX_EDGE
MAX_SOLDIERS == EDGE * EDGE
MIN_SOLDIERS == 2
SOLDIERS == MIN_SOLDIERS
PROMPT == <<"t","i","m","e","=","%","t",","," ","r","o","u","n","d","=","%","r",")",">"," ">>

(***************************************************************************)
(* Characters and library functions on text.                               *)
(***************************************************************************)
Digits == <<"0","1","2","3","4","5","6","7","8","9">>

HexDigits == "0123456789abcdef"

HexVal(h) == CHOOSE d \in 0..15 : SubSeq(HexDigits, d + 1, d + 1) = h

RECURSIVE HexValue(_, _, _)
HexValue(name, i, acc) ==
    IF i > Len(name) THEN acc
    ELSE HexValue(name, i + 1, 16 * acc + HexVal(SubSeq(name, i, i)))

\* whether the character is one that is named by its escape
IsNamed(c) == Len(c) > 1

\* the code point of a named character
CodePoint(c) == HexValue(c, 3, 0)

\* the spelling of a named character, character by character
EscapeChars(c) == [i \in 1..Len(c) |-> SubSeq(c, i, i)]

\* the code points of the digit zero of every row of Unicode decimal digits
\* (ASCII aside); the digits of a row follow its zero
DigitZeros ==
    {1632, 1776, 1984, 2406, 2534, 2662, 2790, 2918, 3046, 3174,
     3302, 3430, 3558, 3664, 3792, 3872, 4160, 4240, 6112, 6160,
     6470, 6608, 6784, 6800, 6992, 7088, 7232, 7248, 42528, 43216,
     43264, 43472, 43504, 43600, 44016, 65296, 66720, 68912, 69734, 69872,
     69942, 70096, 70384, 70736, 70864, 71248, 71360, 71472, 71904, 72016,
     72784, 73040, 73120, 92768, 92864, 93008, 120782, 120792, 120802, 120812,
     120822, 123200, 123632, 125264, 130032}

\* the characters int() takes as decimal digits
IsDigit(c) ==
    IF IsNamed(c)
    THEN \E cp \in {CodePoint(c)} : \E z \in DigitZeros : z <= cp /\ cp <= z + 9
    ELSE \E d \in 1..10 : Digits[d] = c

DigitVal(c) ==
    IF IsNamed(c)
    THEN CHOOSE v \in 0..9 : CodePoint(c) - v \in DigitZeros
    ELSE (CHOOSE d \in 1..10 : Digits[d] = c) - 1

\* the code points of the whitespace of str.isspace() that is named
SpaceCodes ==
    {11, 28, 29, 30, 31, 133, 160, 5760, 8192, 8193, 8194, 8195,
     8196, 8197, 8198, 8199, 8200, 8201, 8202, 8232, 8233, 8239, 8287, 12288}

\* str.isspace(): the whitespace str.strip() removes
IsSpace(c) ==
    IF IsNamed(c) THEN CodePoint(c) \in SpaceCodes
    ELSE c \in {" ", "\t", "\n", "\r", "\f"}

\* the ranges of code points of the characters str.isprintable() rejects,
\* which repr() writes as escapes
NonPrintable ==
    <<<<0,31>>, <<127,160>>, <<173,173>>, <<888,889>>, <<896,899>>, <<907,907>>,
      <<909,909>>, <<930,930>>, <<1328,1328>>, <<1367,1368>>, <<1419,1420>>, <<1424,1424>>,
      <<1480,1487>>, <<1515,1518>>, <<1525,1541>>, <<1564,1564>>, <<1757,1757>>, <<1806,1807>>,
      <<1867,1868>>, <<1970,1983>>, <<2043,2044>>, <<2094,2095>>, <<2111,2111>>, <<2140,2141>>,
      <<2143,2143>>, <<2155,2159>>, <<2191,2199>>, <<2274,2274>>, <<2436,2436>>, <<2445,2446>>,
      <<2449,2450>>, <<2473,2473>>, <<2481,2481>>, <<2483,2485>>, <<2490,2491>>, <<2501,2502>>,
      <<2505,2506>>, <<2511,2518>>, <<2520,2523>>, <<2526,2526>>, <<2532,2533>>, <<2559,2560>>,
      <<2564,2564>>, <<2571,2574>>, <<2577,2578>>, <<2601,2601>>, <<2609,2609>>, <<2612,2612>>,
      <<2615,2615>>, <<2618,2619>>, <<2621,2621>>, <<2627,2630>>, <<2633,2634>>, <<2638,2640>>,
      <<2642,2648>>, <<2653,2653>>, <<2655,2661>>, <<2679,2688>>, <<2692,2692>>, <<2702,2702>>,
      <<2706,2706>>, <<2729,2729>>, <<2737,2737>>, <<2740,2740>>, <<2746,2747>>, <<2758,2758>>,
      <<2762,2762>>, <<2766,2767>>, <<2769,2783>>, <<2788,2789>>, <<2802,2808>>, <<2816,2816>>,
      <<2820,2820>>, <<2829,2830>>, <<2833,2834>>, <<2857,2857>>, <<2865,2865>>, <<2868,2868>>,
      <<2874,2875>>, <<2885,2886>>, <<2889,2890>>, <<2894,2900>>, <<2904,2907>>, <<2910,2910>>,
      <<2916,2917>>, <<2936,2945>>, <<2948,2948>>, <<2955,2957>>, <<2961,2961>>, <<2966,2968>>,
      <<2971,2971>>, <<2973,2973>>, <<2976,2978>>, <<2981,2983>>, <<2987,2989>>, <<3002,3005>>,
      <<3011,3013>>, <<3017,3017>>, <<3022,3023>>, <<3025,3030>>, <<3032,3045>>, <<3067,3071>>,
      <<3085,3085>>, <<3089,3089>>, <<3113,3113>>, <<3130,3131>>, <<3141,3141>>, <<3145,3145>>,
      <<3150,3156>>, <<3159,3159>>, <<3163,3164>>, <<3166,3167>>, <<3172,3173>>, <<3184,3190>>,
      <<3213,3213>>, <<3217,3217>>, <<3241,3241>>, <<3252,3252>>, <<3258,3259>>, <<3269,3269>>,
      <<3273,3273>>, <<3278,3284>>, <<3287,3292>>, <<3295,3295>>, <<3300,3301>>, <<3312,3312>>,
      <<3315,3327>>, <<3341,3341>>, <<3345,3345>>, <<3397,3397>>, <<3401,3401>>, <<3408,3411>>,
      <<3428,3429>>, <<3456,3456>>, <<3460,3460>>, <<3479,3481>>, <<3506,3506>>, <<3516,3516>>,
      <<3518,3519>>, <<3527,3529>>, <<3531,3534>>, <<3541,3541>>, <<3543,3543>>, <<3552,3557>>,
      <<3568,3569>>, <<3573,3584>>, <<3643,3646>>, <<3676,3712>>, <<3715,3715>>, <<3717,3717>>,
      <<3723,3723>>, <<3748,3748>>, <<3750,3750>>, <<3774,3775>>, <<3781,3781>>, <<3783,3783>>,
      <<3790,3791>>, <<3802,3803>>, <<3808,3839>>, <<3912,3912>>, <<3949,3952>>, <<3992,3992>>,
      <<4029,4029>>, <<4045,4045>>, <<4059,4095>>, <<4294,4294>>, <<4296,4300>>, <<4302,4303>>,
      <<4681,4681>>, <<4686,4687>>, <<4695,4695>>, <<4697,4697>>, <<4702,4703>>, <<4745,4745>>,
      <<4750,4751>>, <<4785,4785>>, <<4790,4791>>, <<4799,4799>>, <<4801,4801>>, <<4806,4807>>,
      <<4823,4823>>, <<4881,4881>>, <<4886,4887>>, <<4955,4956>>, <<4989,4991>>, <<5018,5023>>,
      <<5110,5111>>, <<5118,5119>>, <<5760,5760>>, <<5789,5791>>, <<5881,5887>>, <<5910,5918>>,
      <<5943,5951>>, <<5972,5983>>, <<5997,5997>>, <<6001,6001>>, <<6004,6015>>, <<6110,6111>>,
      <<6122,6127>>, <<6138,6143>>, <<6158,6158>>, <<6170,6175>>, <<6265,6271>>, <<6315,6319>>,
      <<6390,6399>>, <<6431,6431>>, <<6444,6447>>, <<6460,6463>>, <<6465,6467>>, <<6510,6511>>,
      <<6517,6527>>, <<6572,6575>>, <<6602,6607>>, <<6619,6621>>, <<6684,6685>>, <<6751,6751>>,
      <<6781,6782>>, <<6794,6799>>, <<6810,6815>>, <<6830,6831>>, <<6863,6911>>, <<6989,6991>>,
      <<7039,7039>>, <<7156,7163>>, <<7224,7226>>, <<7242,7244>>, <<7305,7311>>, <<7355,7356>>,
      <<7368,7375>>, <<7419,7423>>, <<7958,7959>>, <<7966,7967>>, <<8006,8007>>, <<8014,8015>>,
      <<8024,8024>>, <<8026,8026>>, <<8028,8028>>, <<8030,8030>>, <<8062,8063>>, <<8117,8117>>,
      <<8133,8133>>, <<8148,8149>>, <<8156,8156>>, <<8176,8177>>, <<8181,8181>>, <<8191,8207>>,
      <<8232,8239>>, <<8287,8303>>, <<8306,8307>>, <<8335,8335>>, <<8349,8351>>, <<8385,8399>>,
      <<8433,8447>>, <<8588,8591>>, <<9255,9279>>, <<9291,9311>>, <<11124,11125>>, <<11158,11158>>,
      <<11508,11512>>, <<11558,11558>>, <<11560,11564>>, <<11566,11567>>, <<11624,11630>>, <<11633,11646>>,
      <<11671,11679>>, <<11687,11687>>, <<11695,11695>>, <<11703,11703>>, <<11711,11711>>, <<11719,11719>>,
      <<11727,11727>>, <<11735,11735>>, <<11743,11743>>, <<11870,11903>>, <<11930,11930>>, <<12020,12031>>,
      <<12246,12271>>, <<12284,12288>>, <<12352,12352>>, <<12439,12440>>, <<12544,12548>>, <<12592,12592>>,
      <<12687,12687>>, <<12772,12783>>, <<12831,12831>>, <<42125,42127>>, <<42183,42191>>, <<42540,42559>>,
      <<42744,42751>>, <<42955,42959>>, <<42962,42962>>, <<42964,42964>>, <<42970,42993>>, <<43053,43055>>,
      <<43066,43071>>, <<43128,43135>>, <<43206,43213>>, <<43226,43231>>, <<43348,43358>>, <<43389,43391>>,
      <<43470,43470>>, <<43482,43485>>, <<43519,43519>>, <<43575,43583>>, <<43598,43599>>, <<43610,43611>>,
      <<43715,43738>>, <<43767,43776>>, <<43783,43784>>, <<43791,43792>>, <<43799,43807>>, <<43815,43815>>,
      <<43823,43823>>, <<43884,43887>>, <<44014,44015>>, <<44026,44031>>, <<55204,55215>>, <<55239,55242>>,
      <<55292,63743>>, <<64110,64111>>, <<64218,64255>>, <<64263,64274>>, <<64280,64284>>, <<64311,64311>>,
      <<64317,64317>>, <<64319,64319>>, <<64322,64322>>, <<64325,64325>>, <<64451,64466>>, <<64912,64913>>,
      <<64968,64974>>, <<64976,65007>>, <<65050,65055>>, <<65107,65107>>, <<65127,65127>>, <<65132,65135>>,
      <<65141,65141>>, <<65277,65280>>, <<65471,65473>>, <<65480,65481>>, <<65488,65489>>, <<65496,65497>>,
      <<65501,65503>>, <<65511,65511>>, <<65519,65531>>, <<65534,65535>>, <<65548,65548>>, <<65575,65575>>,
      <<65595,65595>>, <<65598,65598>>, <<65614,65615>>, <<65630,65663>>, <<65787,65791>>, <<65795,65798>>,
      <<65844,65846>>, <<65935,65935>>, <<65949,65951>>, <<65953,65999>>, <<66046,66175>>, <<66205,66207>>,
      <<66257,66271>>, <<66300,66303>>, <<66340,66348>>, <<66379,66383>>, <<66427,66431>>, <<66462,66462>>,
      <<66500,66503>>, <<66518,66559>>, <<66718,66719>>, <<66730,66735>>, <<66772,66775>>, <<66812,66815>>,
      <<66856,66863>>, <<66916,66926>>, <<66939,66939>>, <<66955,66955>>, <<66963,66963>>, <<66966,66966>>,
      <<66978,66978>>, <<66994,66994>>, <<67002,67002>>, <<67005,67071>>, <<67383,67391>>, <<67414,67423>>,
      <<67432,67455>>, <<67462,67462>>, <<67505,67505>>, <<67515,67583>>, <<67590,67591>>, <<67593,67593>>,
      <<67638,67638>>, <<67641,67643>>, <<67645,67646>>, <<67670,67670>>, <<67743,67750>>, <<67760,67807>>,
      <<67827,67827>>, <<67830,67834>>, <<67868,67870>>, <<67898,67902>>, <<67904,67967>>, <<68024,68027>>,
      <<68048,68049>>, <<68100,68100>>, <<68103,68107>>, <<68116,68116>>, <<68120,68120>>, <<68150,68151>>,
      <<68155,68158>>, <<68169,68175>>, <<68185,68191>>, <<68256,68287>>, <<68327,68330>>, <<68343,68351>>,
      <<68406,68408>>, <<68438,68439>>, <<68467,68471>>, <<68498,68504>>, <<68509,68520>>, <<68528,68607>>,
      <<68681,68735>>, <<68787,68799>>, <<68851,68857>>, <<68904,68911>>, <<68922,69215>>, <<69247,69247>>,
      <<69290,69290>>, <<69294,69295>>, <<69298,69375>>, <<69416,69423>>, <<69466,69487>>, <<69514,69551>>,
      <<69580,69599>>, <<69623,69631>>, <<69710,69713>>, <<69750,69758>>, <<69821,69821>>, <<69827,69839>>,
      <<69865,69871>>, <<69882,69887>>, <<69941,69941>>, <<69960,69967>>, <<70007,70015>>, <<70112,70112>>,
      <<70133,70143>>, <<70162,70162>>, <<70207,70271>>, <<70279,70279>>, <<70281,70281>>, <<70286,70286>>,
      <<70302,70302>>, <<70314,70319>>, <<70379,70383>>, <<70394,70399>>, <<70404,70404>>, <<70413,70414>>,
      <<70417,70418>>, <<70441,70441>>, <<70449,70449>>, <<70452,70452>>, <<70458,70458>>, <<70469,70470>>,
      <<70473,70474>>, <<70478,70479>>, <<70481,70486>>, <<70488,70492>>, <<70500,70501>>, <<70509,70511>>,
      <<70517,70655>>, <<70748,70748>>, <<70754,70783>>, <<70856,70863>>, <<70874,71039>>, <<71094,71095>>,
      <<71134,71167>>, <<71237,71247>>, <<71258,71263>>, <<71277,71295>>, <<71354,71359>>, <<71370,71423>>,
      <<71451,71452>>, <<71468,71471>>, <<71495,71679>>, <<71740,71839>>, <<71923,71934>>, <<71943,71944>>,
      <<71946,71947>>, <<71956,71956>>, <<71959,71959>>, <<71990,71990>>, <<71993,71994>>, <<72007,72015>>,
      <<72026,72095>>, <<72104,72105>>, <<72152,72153>>, <<72165,72191>>, <<72264,72271>>, <<72355,72367>>,
      <<72441,72703>>, <<72713,72713>>, <<72759,72759>>, <<72774,72783>>, <<72813,72815>>, <<72848,72849>>,
      <<72872,72872>>, <<72887,72959>>, <<72967,72967>>, <<72970,72970>>, <<73015,73017>>, <<73019,73019>>,
      <<73022,73022>>, <<73032,73039>>, <<73050,73055>>, <<73062,73062>>, <<73065,73065>>, <<73103,73103>>,
      <<73106,73106>>, <<73113,73119>>, <<73130,73439>>, <<73465,73647>>, <<73649,73663>>, <<73714,73726>>,
      <<74650,74751>>, <<74863,74863>>, <<74869,74879>>, <<75076,77711>>, <<77811,77823>>, <<78895,82943>>,
      <<83527,92159>>, <<92729,92735>>, <<92767,92767>>, <<92778,92781>>, <<92863,92863>>, <<92874,92879>>,
      <<92910,92911>>, <<92918,92927>>, <<92998,93007>>, <<93018,93018>>, <<93026,93026>>, <<93048,93052>>,
      <<93072,93759>>, <<93851,93951>>, <<94027,94030>>, <<94088,94094>>, <<94112,94175>>, <<94181,94191>>,
      <<94194,94207>>, <<100344,100351>>, <<101590,101631>>, <<101641,110575>>, <<110580,110580>>, <<110588,110588>>,
      <<110591,110591>>, <<110883,110927>>, <<110931,110947>>, <<110952,110959>>, <<111356,113663>>, <<113771,113775>>,
      <<113789,113791>>, <<113801,113807>>, <<113818,113819>>, <<113824,118527>>, <<118574,118575>>, <<118599,118607>>,
      <<118724,118783>>, <<119030,119039>>, <<119079,119080>>, <<119155,119162>>, <<119275,119295>>, <<119366,119519>>,
      <<119540,119551>>, <<119639,119647>>, <<119673,119807>>, <<119893,119893>>, <<119965,119965>>, <<119968,119969>>,
      <<119971,119972>>, <<119975,119976>>, <<119981,119981>>, <<119994,119994>>, <<119996,119996>>, <<120004,120004>>,
      <<120070,120070>>, <<120075,120076>>, <<120085,120085>>, <<120093,120093>>, <<120122,120122>>, <<120127,120127>>,
      <<120133,120133>>, <<120135,120137>>, <<120145,120145>>, <<120486,120487>>, <<120780,120781>>, <<121484,121498>>,
      <<121504,121504>>, <<121520,122623>>, <<122655,122879>>, <<122887,122887>>, <<122905,122906>>, <<122914,122914>>,
      <<122917,122917>>, <<122923,123135>>, <<123181,123183>>, <<123198,123199>>, <<123210,123213>>, <<123216,123535>>,
      <<123567,123583>>, <<123642,123646>>, <<123648,124895>>, <<124903,124903>>, <<124908,124908>>, <<124911,124911>>,
      <<124927,124927>>, <<125125,125126>>, <<125143,125183>>, <<125260,125263>>, <<125274,125277>>, <<125280,126064>>,
      <<126133,126208>>, <<126270,126463>>, <<126468,126468>>, <<126496,126496>>, <<126499,126499>>, <<126501,126502>>,
      <<126504,126504>>, <<126515,126515>>, <<126520,126520>>, <<126522,126522>>, <<126524,126529>>, <<126531,126534>>,
      <<126536,126536>>, <<126538,126538>>, <<126540,126540>>, <<126544,126544>>, <<126547,126547>>, <<126549,126550>>,
      <<126552,126552>>, <<126554,126554>>, <<126556,126556>>, <<126558,126558>>, <<126560,126560>>, <<126563,126563>>,
      <<126565,126566>>, <<126571,126571>>, <<126579,126579>>, <<126584,126584>>, <<126589,126589>>, <<126591,126591>>,
      <<126602,126602>>, <<126620,126624>>, <<126628,126628>>, <<126634,126634>>, <<126652,126703>>, <<126706,126975>>,
      <<127020,127023>>, <<127124,127135>>, <<127151,127152>>, <<127168,127168>>, <<127184,127184>>, <<127222,127231>>,
      <<127406,127461>>, <<127491,127503>>, <<127548,127551>>, <<127561,127567>>, <<127570,127583>>, <<127590,127743>>,
      <<128728,128732>>, <<128749,128751>>, <<128765,128767>>, <<128884,128895>>, <<128985,128991>>, <<129004,129007>>,
      <<129009,129023>>, <<129036,129039>>, <<129096,129103>>, <<129114,129119>>, <<129160,129167>>, <<129198,129199>>,
      <<129202,129279>>, <<129620,129631>>, <<129646,129647>>, <<129653,129655>>, <<129661,129663>>, <<129671,129679>>,
      <<129709,129711>>, <<129723,129727>>, <<129734,129743>>, <<129754,129759>>, <<129768,129775>>, <<129783,129791>>,
      <<129939,129939>>, <<129995,130031>>, <<130042,131071>>, <<173792,173823>>, <<177977,177983>>, <<178206,178207>>,
      <<183970,183983>>, <<191457,194559>>, <<195102,196607>>, <<201547,917759>>, <<918000,1114111>>>>

\* str.isprintable() of one character
IsPrintable(c) ==
    IF IsNamed(c)
    THEN \E cp \in {CodePoint(c)} :
             \A k \in 1..Len(NonPrintable) :
                 cp < NonPrintable[k][1] \/ cp > NonPrintable[k][2]
    ELSE c \notin {"\t", "\n", "\r", "\f"}

RECURSIVE lstrip(_)
lstrip(s) == IF s # <<>> /\ IsSpace(Head(s)) THEN lstrip(Tail(s)) ELSE s

RECURSIVE rstrip(_)
rstrip(s) ==
    IF s # <<>> /\ IsSpace(s[Len(s)]) THEN rstrip(SubSeq(s, 1, Len(s) - 1)) ELSE s

\* str.strip()
strip(s) == rstrip(lstrip(s))

(***************************************************************************)
(* shlex.split(s): shlex(s, posix=True), whitespace_split = True,          *)
(* commenters = ''.  The lexer state st is " " (between tokens), "a" (in a *)
(* word), a quote character (inside quotes) or "\\" (after an escape);     *)
(* esc is shlex's escapedstate.  The result is [ok, toks]: ok = FALSE is   *)
(* the ValueError of an unclosed quotation or a dangling escape.           *)
(***************************************************************************)
ShWhitespace == {" ", "\t", "\r", "\n"}
ShQuotes == {"'", "\""}
ShEscape == {"\\"}
ShEscapedQuotes == {"\""}

RECURSIVE shlex_read(_, _, _, _, _, _, _)
shlex_read(s, i, st, esc, tok, quoted, acc) ==
    LET eof == i > Len(s)
        c == IF eof THEN "" ELSE s[i]
        emit == IF tok # <<>> \/ quoted THEN Append(acc, tok) ELSE acc
    IN
    IF st = " " THEN
        IF eof THEN [ok |-> TRUE, toks |-> acc]
        ELSE IF c \in ShWhitespace THEN shlex_read(s, i + 1, " ", esc, <<>>, FALSE, acc)
        ELSE IF c \in ShEscape THEN shlex_read(s, i + 1, c, "a", <<>>, FALSE, acc)
        ELSE IF c \in ShQuotes THEN shlex_read(s, i + 1, c, esc, <<>>, TRUE, acc)
        ELSE shlex_read(s, i + 1, "a", esc, <<c>>, FALSE, acc)
    ELSE IF st \in ShQuotes THEN
        IF eof THEN [ok |-> FALSE, toks |-> acc]
        ELSE IF c = st THEN shlex_read(s, i + 1, "a", esc, tok, TRUE, acc)
        ELSE IF c \in ShEscape /\ st \in ShEscapedQuotes
             THEN shlex_read(s, i + 1, c, st, tok, TRUE, acc)
        ELSE shlex_read(s, i + 1, st, esc, Append(tok, c), TRUE, acc)
    ELSE IF st \in ShEscape THEN
        IF eof THEN [ok |-> FALSE, toks |-> acc]
        ELSE IF esc \in ShQuotes /\ c # st /\ c # esc
             THEN shlex_read(s, i + 1, esc, esc, Append(Append(tok, st), c), quoted, acc)
        ELSE shlex_read(s, i + 1, esc, esc, Append(tok, c), quoted, acc)
    ELSE \* st = "a"
        IF eof THEN [ok |-> TRUE, toks |-> emit]
        ELSE IF c \in ShWhitespace THEN shlex_read(s, i + 1, " ", esc, <<>>, FALSE, emit)
        ELSE IF c \in ShQuotes THEN shlex_read(s, i + 1, c, esc, tok, TRUE, acc)
        ELSE IF c \in ShEscape THEN shlex_read(s, i + 1, c, "a", tok, quoted, acc)
        ELSE shlex_read(s, i + 1, "a", esc, Append(tok, c), quoted, acc)

shlex_split(s) == shlex_read(s, 1, " ", " ", <<>>, FALSE, <<>>)

(***************************************************************************)
(* int(text): surrounding whitespace is dropped, then an optional sign and *)
(* decimal digits, single underscores allowed between digits.  The         *)
(* whitespace of int() is that of str.isspace() without the separators     *)
(* \x1c to \x1f.                                                           *)
(***************************************************************************)
IsIntSpace(c) == IsSpace(c) /\ (IsNamed(c) => CodePoint(c) \notin 28..31)

RECURSIVE int_lstrip(_)
int_lstrip(s) == IF s # <<>> /\ IsIntSpace(Head(s)) THEN int_lstrip(Tail(s)) ELSE s

RECURSIVE int_rstrip(_)
int_rstrip(s) ==
    IF s # <<>> /\ IsIntSpace(s[Len(s)]) THEN int_rstrip(SubSeq(s, 1, Len(s) - 1)) ELSE s

int_strip(s) == int_rstrip(int_lstrip(s))

IntBody(s) ==
    LET t == int_strip(s)
    IN IF t # <<>> /\ Head(t) \in {"+", "-"} THEN Tail(t) ELSE t

IntNegative(s) == LET t == int_strip(s) IN t # <<>> /\ Head(t) = "-"

\* sys.get_int_max_str_digits(): the number of digits int() converts at most
MAX_STR_DIGITS == 4300

\* whether int(s) returns (otherwise it raises ValueError)
int_ok(s) ==
    \E b \in {IntBody(s)} :
       /\ b # <<>>
       /\ \A k \in 1..Len(b) : IsDigit(b[k]) \/ b[k] = "_"
       /\ IsDigit(b[1])
       /\ IsDigit(b[Len(b)])
       /\ \A k \in 1..(Len(b) - 1) : ~(b[k] = "_" /\ b[k + 1] = "_")
       /\ Cardinality({k \in 1..Len(b) : b[k] # "_"}) <= MAX_STR_DIGITS

RECURSIVE IntMagnitude(_, _)
IntMagnitude(b, n) ==
    IF b = <<>> THEN n
    ELSE IF Head(b) = "_" THEN IntMagnitude(Tail(b), n)
    ELSE IntMagnitude(Tail(b), 10 * n + DigitVal(Head(b)))

\* the value int(s) returns when int_ok(s)
int_value(s) ==
    IF IntNegative(s) THEN 0 - IntMagnitude(IntBody(s), 0) ELSE IntMagnitude(IntBody(s), 0)

(***************************************************************************)
(* repr() of an int and of a str.                                          *)
(***************************************************************************)
RECURSIVE NatStr(_)
NatStr(n) == IF n < 10 THEN <<Digits[n + 1]>> ELSE Append(NatStr(n \div 10), Digits[(n % 10) + 1])

repr_int(n) == IF n < 0 THEN <<"-">> \o NatStr(0 - n) ELSE NatStr(n)

HasChar(s, c) == \E k \in 1..Len(s) : s[k] = c

RECURSIVE ReprEscape(_, _)
ReprEscape(s, q) ==
    IF s = <<>> THEN <<>>
    ELSE LET c == Head(s)
             e == IF c = "\\" THEN <<"\\", "\\">>
                  ELSE IF c = q THEN <<"\\", c>>
                  ELSE IF c = "\t" THEN <<"\\", "t">>
                  ELSE IF c = "\n" THEN <<"\\", "n">>
                  ELSE IF c = "\r" THEN <<"\\", "r">>
                  ELSE IF c = "\f" THEN <<"\\", "x", "0", "c">>
                  ELSE IF IsNamed(c) /\ ~IsPrintable(c) THEN EscapeChars(c)
                  ELSE <<c>>
         IN e \o ReprEscape(Tail(s), q)

repr_str(s) ==
    LET q == IF HasChar(s, "'") /\ ~HasChar(s, "\"") THEN "\"" ELSE "'"
    IN <<q>> \o ReprEscape(s, q) \o <<q>>

(***************************************************************************)
(* Values of the configuration: a Python object with its type.             *)
(***************************************************************************)
IntV(n) == [t |-> "int", i |-> n, s |-> <<>>]
StrV(s) == [t |-> "str", i |-> 0, s |-> s]
\* a bool: i is 1 for True and 0 for False
BoolV(b) == [t |-> "bool", i |-> (IF b THEN 1 ELSE 0), s |-> <<>>]
\* None, the value GameConfig.__init__ gives a setting before it assigns it
NoneV == [t |-> "NoneType", i |-> 0, s |-> <<>>]

S_True == <<"T","r","u","e">>
S_False == <<"F","a","l","s","e">>
S_None == <<"N","o","n","e">>

\* repr(value)
repr(v) == IF v.t = "int" THEN repr_int(v.i)
           ELSE IF v.t = "str" THEN repr_str(v.s)
           ELSE IF v.t = "NoneType" THEN S_None
           ELSE IF v.i = 1 THEN S_True ELSE S_False

\* str(value), as the f-strings of the setters format it
str(v) == IF v.t = "str" THEN v.s ELSE repr(v)

\* type(current)(value): the text of a command converted with the type of
\* the value the setting holds.  exc is "none", the ValueError of int() or
\* the TypeError of NoneType, which takes no argument
convert(current, value) ==
    IF current.t = "int"
    THEN IF int_ok(value) THEN [exc |-> "none", v |-> IntV(int_value(value))]
         ELSE [exc |-> "ValueError", v |-> current]
    ELSE IF current.t = "str" THEN [exc |-> "none", v |-> StrV(value)]
    ELSE IF current.t = "NoneType" THEN [exc |-> "TypeError", v |-> current]
    ELSE [exc |-> "none", v |-> BoolV(value # <<>>)]

S_edge == <<"e","d","g","e">>
S_prompt == <<"p","r","o","m","p","t">>
S_soldiers == <<"s","o","l","d","i","e","r","s">>
S_validate == <<"v","a","l","i","d","a","t","e">>
S_init == <<"_","_","i","n","i","t","_","_">>

\* a class in which validate is declared as a property
GameConfigDict_validateProperty ==
    << [name |-> S_init,     isProperty |-> FALSE, attr |-> ""],
       [name |-> S_edge,     isProperty |-> TRUE,  attr |-> "edge"],
       [name |-> S_prompt,   isProperty |-> TRUE,  attr |-> "prompt"],
       [name |-> S_soldiers, isProperty |-> TRUE,  attr |-> "soldiers"],
       [name |-> S_validate, isProperty |-> TRUE,  attr |-> "edge"] >>

\* GameConfig.__dict__: the members of the class, in definition order, and
\* whether each is a property.  attr is the field a property reads and writes.
GameConfigDict ==
    << [name |-> S_init,     isProperty |-> FALSE, attr |-> ""],
       [name |-> S_edge,     isProperty |-> TRUE,  attr |-> "edge"],
       [name |-> S_prompt,   isProperty |-> TRUE,  attr |-> "prompt"],
       [name |-> S_soldiers, isProperty |-> TRUE,  attr |-> "soldiers"],
       [name |-> S_validate, isProperty |-> FALSE, attr |-> ""] >>

\* GameConfig.__init__ with its default arguments
GameConfig == [edge |-> IntV(EDGE), prompt |-> StrV(PROMPT), soldiers |-> IntV(SOLDIERS)]

\* GameConfig.validate: "ok", or the exception it raises
validate(config) ==
    IF config.edge.t # "int" THEN "TypeError"
    ELSE IF config.soldiers.t # "int" THEN "TypeError"
    ELSE IF config.edge.i < MIN_EDGE \/ config.edge.i > MAX_EDGE THEN "ValueError"
    ELSE IF config.soldiers.i < MIN_SOLDIERS \/ config.soldiers.i > MAX_SOLDIERS THEN "ValueError"
    ELSE "ok"

(***************************************************************************)
(* Game: the lifecycle.  A game is [config, state, stateLog, round,        *)
(* logged]; stateLog is the sequence of values the state setter has        *)
(* assigned, logged the sequence of assignments the setters have made and  *)
(* passed to logger.debug during the call at hand.  An assignment is       *)
(* [attr, val, st]: the attribute, and its new value (val for a setting,   *)
(* st for the state).                                                      *)
(***************************************************************************)
GameStates == {"UNSTARTED", "STARTING", "STARTED", "STOPPING", "STOPPED"}

Assigned(attr, val, st) == [attr |-> attr, val |-> val, st |-> st]

\* the state setter: the assignment and the record it logs
set_state(game, st) ==
    [game EXCEPT !.state = st,
                 !.stateLog = Append(game.stateLog, st),
                 !.logged = Append(game.logged, Assigned("state", IntV(0), st))]

\* the setter of a setting of the configuration: the assignment and the
\* record it logs
set_config(game, attr, val) ==
    [game EXCEPT !.config[attr] = val,
                 !.logged = Append(game.logged, Assigned(attr, val, ""))]

\* the line logger.debug formats for an assignment
LogLine(a) ==
    IF a.attr = "state" THEN [lit |-> "\"state\" set to " \o a.st, arg |-> <<>>]
    ELSE [lit |-> "\"" \o a.attr \o "\" set to ", arg |-> str(a.val)]

LogLines(logged) == [k \in 1..Len(logged) |-> LogLine(logged[k])]

\* Game.__init__
NewGame(config) ==
    set_state([config |-> config, state |-> "None", stateLog |-> <<>>, round |-> 0,
               logged |-> <<>>], "UNSTARTED")

start(game) == set_state(set_state(game, "STARTING"), "STARTED")

\* stop() that does not complete the teardown
stop_partial(game) == set_state(game, "STOPPING")

stop(game) == set_state(set_state(game, "STOPPING"), "STOPPED")

\* has_started that only excludes the initial state
has_started_notInitial(game) == game.state \notin {"UNSTARTED"}

has_started(game) == game.state \in {"STARTING", "STARTED"}

has_stopped(game) == game.state \in {"STOPPED"}

(***************************************************************************)
(* Actions.  The result of run is                              *)
(*   [exc, msg, ret, game]: exc is "none" or the exception raised, msg its *)
(*   message, ret the returned text (NoText for None), game the game after. *)
(* A written line is [lit, arg]: the literal text followed by arg.         *)
(***************************************************************************)
NoText == [some |-> FALSE, s |-> <<>>]
Text(s) == [some |-> TRUE, s |-> s]
NoMsg == [lit |-> "", arg |-> <<>>]

Returns(game, ret) == [exc |-> "none", msg |-> NoMsg, ret |-> ret, game |-> game]
Raises(game, exc, lit, arg) ==
    [exc |-> exc, msg |-> [lit |-> lit, arg |-> arg], ret |-> NoText, game |-> game]

\* the entry of the class dictionary that the loop of get and set stops at
IsSetting(setting) ==
    \E k \in 1..Len(GameConfigDict) :
        GameConfigDict[k].name = setting /\ GameConfigDict[k].isProperty

AttrOf(setting) ==
    GameConfigDict[CHOOSE k \in 1..Len(GameConfigDict) :
                       GameConfigDict[k].name = setting /\ GameConfigDict[k].isProperty].attr

\* get whose loop takes the first property it meets
GetSetting_run_first(game, arguments) ==
    IF Len(arguments) > 1 THEN Raises(game, "TypeError", "", <<>>)
    ELSE IF Len(arguments) = 0
        THEN Raises(game, "GameActionError", "Missing argument: setting", <<>>)
    ELSE IF IsSetting(arguments[1])
        THEN Returns(game, Text(repr(game.config.edge)))
    ELSE Raises(game, "GameActionError", "Unknown setting: ", arguments[1])

\* GetSetting.run(setting=None)
GetSetting_run(game, arguments) ==
    IF Len(arguments) > 1 THEN Raises(game, "TypeError", "", <<>>)
    ELSE IF Len(arguments) = 0
        THEN Raises(game, "GameActionError", "Missing argument: setting", <<>>)
    ELSE IF IsSetting(arguments[1])
        THEN Returns(game, Text(repr(game.config[AttrOf(arguments[1])])))
    ELSE Raises(game, "GameActionError", "Unknown setting: ", arguments[1])

\* set that stores the raw text before converting it
SetSetting_run_raw(game, arguments) ==
    IF Len(arguments) > 2 THEN Raises(game, "TypeError", "", <<>>)
    ELSE IF Len(arguments) = 0
        THEN Raises(game, "GameActionError", "Missing argument: setting", <<>>)
    ELSE IF Len(arguments) = 1
        THEN Raises(game, "GameActionError", "Missing argument: value", <<>>)
    ELSE IF IsSetting(arguments[1])
        THEN LET a == AttrOf(arguments[1])
                 value == arguments[2]
                 c == convert(game.config[a], value)
             IN IF c.exc = "none"
                THEN Returns(set_config(game, a, c.v), NoText)
                ELSE IF c.exc = "ValueError"
                THEN Raises(set_config(game, a, StrV(value)), "GameActionError",
                            "Illegal value for setting: ", arguments[1])
                ELSE Raises(game, c.exc, "", <<>>)
    ELSE Raises(game, "GameActionError", "Unknown setting: ", arguments[1])

\* set that looks the setting up before it asks for the value
SetSetting_run_lookupFirst(game, arguments) ==
    IF Len(arguments) > 2 THEN Raises(game, "TypeError", "", <<>>)
    ELSE IF Len(arguments) = 0
        THEN Raises(game, "GameActionError", "Missing argument: setting", <<>>)
    ELSE IF ~IsSetting(arguments[1])
        THEN Raises(game, "GameActionError", "Unknown setting: ", arguments[1])
    ELSE IF Len(arguments) = 1
        THEN Raises(game, "GameActionError", "Missing argument: value", <<>>)
    ELSE LET a == AttrOf(arguments[1])
             value == arguments[2]
             c == convert(game.config[a], value)
         IN IF c.exc = "none"
            THEN Returns(set_config(game, a, c.v), NoText)
            ELSE IF c.exc = "ValueError"
            THEN Raises(game, "GameActionError",
                        "Illegal value for setting: ", arguments[1])
            ELSE Raises(game, c.exc, "", <<>>)

\* set that puts soldiers back to its default whenever edge is set
SetSetting_run_resetSoldiers(game, arguments) ==
    IF Len(arguments) > 2 THEN Raises(game, "TypeError", "", <<>>)
    ELSE IF Len(arguments) = 0
        THEN Raises(game, "GameActionError", "Missing argument: setting", <<>>)
    ELSE IF Len(arguments) = 1
        THEN Raises(game, "GameActionError", "Missing argument: value", <<>>)
    ELSE IF IsSetting(arguments[1])
        THEN LET a == AttrOf(arguments[1])
                 value == arguments[2]
                 g == IF a = "edge" THEN set_config(game, "soldiers", IntV(SOLDIERS))
                      ELSE game
                 c == convert(game.config[a], value)
             IN IF c.exc = "none"
                THEN Returns(set_config(g, a, c.v), NoText)
                ELSE IF c.exc = "ValueError"
                THEN Raises(game, "GameActionError",
                            "Illegal value for setting: ", arguments[1])
                ELSE Raises(game, c.exc, "", <<>>)
    ELSE Raises(game, "GameActionError", "Unknown setting: ", arguments[1])

\* set that assigns the raw text without converting it
SetSetting_run_unconverted(game, arguments) ==
    IF Len(arguments) > 2 THEN Raises(game, "TypeError", "", <<>>)
    ELSE IF Len(arguments) = 0
        THEN Raises(game, "GameActionError", "Missing argument: setting", <<>>)
    ELSE IF Len(arguments) = 1
        THEN Raises(game, "GameActionError", "Missing argument: value", <<>>)
    ELSE IF IsSetting(arguments[1])
        THEN Returns(set_config(game, AttrOf(arguments[1]), StrV(arguments[2])), NoText)
    ELSE Raises(game, "GameActionError", "Unknown setting: ", arguments[1])

\* SetSetting.run(setting=None, value=None)
SetSetting_run(game, arguments) ==
    IF Len(arguments) > 2 THEN Raises(game, "TypeError", "", <<>>)
    ELSE IF Len(arguments) = 0
        THEN Raises(game, "GameActionError", "Missing argument: setting", <<>>)
    ELSE IF Len(arguments) = 1
        THEN Raises(game, "GameActionError", "Missing argument: value", <<>>)
    ELSE IF IsSetting(arguments[1])
        THEN LET a == AttrOf(arguments[1])
                 value == arguments[2]
                 c == convert(game.config[a], value)
             IN IF c.exc = "none"
                THEN Returns(set_config(game, a, c.v), NoText)
                ELSE IF c.exc = "ValueError"
                THEN Raises(game, "GameActionError",
                            "Illegal value for setting: ", arguments[1])
                ELSE Raises(game, c.exc, "", <<>>)
    ELSE Raises(game, "GameActionError", "Unknown setting: ", arguments[1])

\* QuitGame.run()
QuitGame_run(game, arguments) ==
    IF Len(arguments) > 0 THEN Raises(game, "TypeError", "", <<>>)
    ELSE Returns(stop(game), NoText)

A_get == <<"g","e","t">>
A_quit == <<"q","u","i","t">>
A_set == <<"s","e","t">>

\* Game._actions
IsAction(action) == action \in {A_get, A_quit, A_set}

\* a registry that also answers to a capitalised verb
RunAction_anycase(game, action, arguments) ==
    IF action = A_get THEN GetSetting_run(game, arguments)
    ELSE IF action \in {A_quit, <<"Q","u","i","t">>} THEN QuitGame_run(game, arguments)
    ELSE IF action = A_set THEN SetSetting_run(game, arguments)
    ELSE Raises(game, "KeyError", "", action)

\* a dispatch that advances the round with every command
RunAction_counting(game, action, arguments) ==
    LET g == [game EXCEPT !.round = @ + 1]
    IN IF action = A_get THEN GetSetting_run(g, arguments)
       ELSE IF action = A_quit THEN QuitGame_run(g, arguments)
       ELSE IF action = A_set THEN SetSetting_run(g, arguments)
       ELSE Raises(game, "KeyError", "", action)

\* self._actions[action](self).run
RunAction(game, action, arguments) ==
    IF action = A_get THEN GetSetting_run(game, arguments)
    ELSE IF action = A_quit THEN QuitGame_run(game, arguments)
    ELSE IF action = A_set THEN SetSetting_run(game, arguments)
    ELSE Raises(game, "KeyError", "", action)

(***************************************************************************)
(* Game.process_user_input.  The result is                                 *)
(*   game       the game after the call; game.logged holds the records the *)
(*              setters passed to logger.debug during the call             *)
(*   out, err   the lines sys.stdout.write and sys.stderr.write wrote      *)
(*   exc        the exception raised while processing ("none" if none)     *)
(*   caught     whether process_user_input handled it                      *)
(*   dispatched whether an action was looked up (line 74 was reached)      *)
(***************************************************************************)
Outcome(game, out, err, exc, caught, dispatched) ==
    [game |-> game, out |-> out, err |-> err, exc |-> exc, caught |-> caught,
     dispatched |-> dispatched]

process_user_input(game, user_input) ==
    LET stripped_input == strip(user_input)
        split == shlex_split(stripped_input)
    IN
    IF user_input = <<>> THEN Outcome(game, <<>>, <<>>, "none", FALSE, FALSE)
    ELSE IF ~split.ok THEN Outcome(game, <<>>, <<>>, "ValueError", FALSE, FALSE)
    ELSE IF split.toks = <<>> THEN Outcome(game, <<>>, <<>>, "ValueError", FALSE, FALSE)
    ELSE
        LET action == Head(split.toks)
            arguments == Tail(split.toks)
            r == RunAction(game, action, arguments)
        IN
        IF r.exc = "KeyError"
            THEN Outcome(r.game, <<>>, <<[lit |-> "ERROR: Unknown action: ", arg |-> action]>>,
                         "KeyError", TRUE, TRUE)
        ELSE IF r.exc = "GameActionError"
            THEN Outcome(r.game, <<>>, <<[lit |-> "ERROR: " \o r.msg.lit, arg |-> r.msg.arg]>>,
                         "GameActionError", TRUE, TRUE)
        ELSE IF r.exc # "none"
            THEN Outcome(r.game, <<>>, <<>>, r.exc, FALSE, TRUE)
        ELSE IF r.ret.some /\ r.ret.s # <<>>
            THEN Outcome(r.game, <<[lit |-> "", arg |-> r.ret.s]>>, <<>>, "none", FALSE, TRUE)
        ELSE Outcome(r.game, <<>>, <<>>, "none", FALSE, TRUE)

(***************************************************************************)
(* Game.prompt: re.sub over the template with the keys of PROMPT_MAP.      *)
(* The function of a key is called once for every placeholder, so every %t *)
(* reads the clock anew: nows holds the texts of                           *)
(* datetime.now().strftime("%s") in the order of the placeholders %t.      *)
(***************************************************************************)
\* a substitution that stops after the first placeholder (re.sub with count=1)
render_once(template, round, nows) ==
    LET hits == {k \in 1..(Len(template) - 1) :
                     template[k] = "%" /\ template[k + 1] \in {"t", "r"}}
    IN IF hits = {} THEN template
       ELSE LET k == CHOOSE h \in hits : \A g \in hits : h <= g
            IN SubSeq(template, 1, k - 1)
               \o (IF template[k + 1] = "t" THEN Head(nows) ELSE repr_int(round))
               \o SubSeq(template, k + 2, Len(template))

RECURSIVE render(_, _, _)
render(template, round, nows) ==
    IF template = <<>> THEN <<>>
    ELSE IF Len(template) >= 2 /\ template[1] = "%" /\ template[2] = "t"
        THEN Head(nows) \o render(SubSeq(template, 3, Len(template)), round, Tail(nows))
    ELSE IF Len(template) >= 2 /\ template[1] = "%" /\ template[2] = "r"
        THEN repr_int(round) \o render(SubSeq(template, 3, Len(template)), round, nows)
    ELSE <<Head(template)>> \o render(Tail(template), round, nows)

\* the number of placeholders %t of a template
NumTimes(template) ==
    Cardinality({k \in 1..(Len(template) - 1) : template[k] = "%" /\ template[k + 1] = "t"})

\* Game.prompt: [exc, text]; re.sub raises TypeError when the template is
\* not a string
prompt(game, nows) ==
    IF game.config.prompt.t = "str"
    THEN [exc |-> "none", text |-> render(game.config.prompt.s, game.round, nows)]
    ELSE [exc |-> "TypeError", text |-> <<>>]

(***************************************************************************)
(* The input lines explored: words joined by one space, and lines whose    *)
(* spacing or quoting matters.                                             *)
(***************************************************************************)
W_foo == <<"f","o","o">>
W_Quit == <<"Q","u","i","t">>
W_bogus == <<"b","o","g","u","s">>
W_Edge == <<"E","d","g","e">>
W_now == <<"n","o","w">>
W_x == <<"x">>

Verbs == {A_get, A_set, A_quit, W_foo, W_Quit}
SettingWords == {S_edge, S_soldiers, S_prompt, S_validate, W_bogus, W_Edge}
SetWords == {S_edge, S_soldiers}
ValueWords == {<<"5">>, <<"0","5">>, <<"2","1">>, <<"-","3">>, <<"a","b","c">>}
PromptWords == {<<"5">>, <<"a","b","c">>}

RECURSIVE Join(_)
Join(words) ==
    IF words = <<>> THEN <<>>
    ELSE IF Len(words) = 1 THEN words[1]
    ELSE words[1] \o <<" ">> \o Join(Tail(words))

WordLines ==
    {<<v>> : v \in Verbs}
    \cup {<<A_get, s>> : s \in SettingWords}
    \cup {<<A_set, s, v>> : s \in SetWords, v \in ValueWords}
    \cup {<<A_set, S_prompt, v>> : v \in PromptWords}
    \cup {<<A_set, S_edge>>, <<A_set, W_bogus>>, <<W_foo, S_edge>>,
          <<A_set, S_validate, <<"5">> >>, <<A_set, W_Edge, <<"5">> >>,
          <<A_set, W_bogus, <<"5">> >>,
          <<A_set, S_edge, <<"1">> >>,
          <<A_quit, W_now>>, <<A_get, S_edge, W_x>>, <<A_set, S_edge, <<"5">>, W_x>>,
          <<W_foo, S_edge, <<"5">>, W_x>>}

RawLines ==
    { <<>>,
      <<" ">>,
      <<" ", "\t", " ">>,
      <<" ">> \o A_quit \o <<" ">>,
      A_get \o <<" ", " ">> \o S_soldiers,
      A_get \o <<" ", "\"">> \o S_edge,
      A_get \o <<" ", "\"">> \o S_edge \o <<"\"">>,
      <<"\"", "\"">>,
      A_set \o <<" ">> \o S_edge \o <<" ", "\"", " ", "7", " ", "\"">>,
      A_set \o <<" ">> \o S_prompt \o <<" ", "\"", "r", "=", "%", "r", " ", "\"">>,
      A_set \o <<" ">> \o S_prompt \o <<" ", "%", "z", "%", "t">>,
      A_set \o <<" ">> \o S_prompt \o <<" ", "i", "t", "'", "s">>,
      A_set \o <<" ">> \o S_prompt \o <<" ", "\"", "i", "t", "'", "s", "\"">>,
      A_set \o <<" ">> \o S_prompt \o <<" ", "a", "\\">>,
      <<"\f">> \o A_quit,
      <<"\f">>,
      A_set \o <<" ">> \o S_edge \o <<" ", "\f", "5", "\\x0b">>,
      A_set \o <<" ">> \o S_edge \o <<" ", "\\u0967">>,
      A_set \o <<" ">> \o S_prompt \o <<" ", "a", "\\x1b", "b">> }

InputLines == {Join(w) : w \in WordLines} \cup RawLines

\* the texts datetime.now().strftime("%s") gives at the moments explored
Times == {<<"1","7">>, <<"9">>}

\* the readings of the clock one rendering of the prompt can make
Clock(g) ==
    IF g.config.prompt.t = "str" THEN [1..NumTimes(g.config.prompt.s) -> Times]
    ELSE {<<>>}

(***************************************************************************)
(* A call that the interrupt cuts short.  What a call does is a sequence   *)
(* of events: an assignment by a setter, the log record of that            *)
(* assignment, a line written to standard output or standard error.        *)
(***************************************************************************)
Event(k, a, line) == [k |-> k, a |-> a, line |-> line]

RECURSIVE SetterEvents(_)
SetterEvents(logged) ==
    IF logged = <<>> THEN <<>>
    ELSE <<Event("assign", Head(logged), NoMsg),
           Event("log", Head(logged), LogLine(Head(logged)))>>
         \o SetterEvents(Tail(logged))

WriteEvents(k, lines) == [j \in 1..Len(lines) |-> Event(k, Assigned("", IntV(0), ""), lines[j])]

\* what a call of process_user_input does, in order: the action runs (its
\* setters assign and log), then the error or the output is written
Events(o) ==
    SetterEvents(o.game.logged) \o WriteEvents("err", o.err) \o WriteEvents("out", o.out)

NewLine == [lit |-> "\n", arg |-> <<>>]

\* what the handler of lines 253-255 does, in order
HandlerEvents(g) == WriteEvents("out", <<NewLine>>) \o SetterEvents(stop(g).logged)

\* the game and the lines written when nothing has been done yet
Done(g) == [game |-> g, out |-> <<>>, err |-> <<>>, log |-> <<>>]

Perform(d, ev) ==
    IF ev.k = "assign"
    THEN IF ev.a.attr = "state"
         THEN [d EXCEPT !.game.state = ev.a.st,
                        !.game.stateLog = Append(d.game.stateLog, ev.a.st)]
         ELSE [d EXCEPT !.game.config[ev.a.attr] = ev.a.val]
    ELSE IF ev.k = "log" THEN [d EXCEPT !.log = Append(d.log, ev.line)]
    ELSE IF ev.k = "out" THEN [d EXCEPT !.out = Append(d.out, ev.line)]
    ELSE [d EXCEPT !.err = Append(d.err, ev.line)]

RECURSIVE PerformAll(_, _)
PerformAll(d, evs) ==
    IF evs = <<>> THEN d ELSE PerformAll(Perform(d, Head(evs)), Tail(evs))

\* how many of its events a call has performed when the interrupt arrives
\* before it returns
CutPoints(evs) == 0..Len(evs)

(***************************************************************************)
(* The state of one run of main().                                         *)
(***************************************************************************)
VARIABLES
    pc,         \* where main() is: "config", "validate", "construct", "start", "loop",
                \* "handler", "exited", "crashed"
    config,     \* the GameConfig object (its fields are None until __init__ assigns them)
    state,      \* Game._state ("None" before the game is constructed)
    stateLog,   \* the values assigned to Game.state, in order
    round,      \* Game._round
    input,      \* what the last input() gave: [kind, text]; kind is "line", "cut" (a line
                \* whose processing the interrupt cut short), "eof", "interrupt" or "none"
    promptOut,  \* the prompt written before the last input()
    out,        \* lines sys.stdout.write wrote since the last input() (the prompt aside)
    err,        \* lines sys.stderr.write wrote since the last input()
    log,        \* lines the handler of the logger wrote to standard error since the last
                \* input(), or since the start of the process
    exc,        \* the exception raised since the last input() ("none" if none)
    caught,     \* whether that exception was handled
    prev,       \* config, state and round when the last input() returned
    lastSet,    \* per setting, the value text of the last set that returned (NoText: none yet)
    nPrompt,    \* number of prompts written
    nRead,      \* number of lines read
    nDispatch,  \* number of commands dispatched
    exitStatus  \* exit status of the process: -1 while it runs, -2 when SIGINT ended it

vars == <<pc, config, state, stateLog, round, input, promptOut, out, err, log, exc, caught,
          prev, lastSet, nPrompt, nRead, nDispatch, exitStatus>>

game == [config |-> config, state |-> state, stateLog |-> stateLog, round |-> round,
         logged |-> <<>>]

NoInput == [kind |-> "none", text |-> <<>>]

Snapshot(g) == [config |-> g.config, state |-> g.state, round |-> g.round]

\* the assignments GameConfig.__init__ makes through the setters, lines 131-133
ConfigAssignments(cfg) ==
    <<Assigned("edge", cfg.edge, ""), Assigned("prompt", cfg.prompt, ""),
      Assigned("soldiers", cfg.soldiers, "")>>

\* the records GameConfig.__init__ logs
ConfigLog(cfg) == LogLines(ConfigAssignments(cfg))

\* the records the logger has written when main() enters its loop with the
\* configuration cfg and a game whose state was assigned the values of path
StartupLog(cfg, path) ==
    ConfigLog(cfg) \o LogLines([k \in 1..Len(path) |-> Assigned("state", IntV(0), path[k])])

\* the fields of a GameConfig after lines 127-129
NoConfig == [edge |-> NoneV, prompt |-> NoneV, soldiers |-> NoneV]

InitAt(p, cfg, records) ==
    /\ pc = p
    /\ config = cfg
    /\ state = "None"
    /\ stateLog = <<>>
    /\ round = 0
    /\ input = NoInput
    /\ promptOut = <<>>
    /\ out = <<>>
    /\ err = <<>>
    /\ log = records
    /\ exc = "none"
    /\ caught = FALSE
    /\ prev = [config |-> cfg, state |-> "None", round |-> 0]
    /\ lastSet = [edge |-> NoText, prompt |-> NoText, soldiers |-> NoText]
    /\ nPrompt = 0
    /\ nRead = 0
    /\ nDispatch = 0
    /\ exitStatus = -1

\* main() at line 245, with the configuration cfg constructed
InitWith(cfg) == InitAt("validate", cfg, ConfigLog(cfg))

\* main(), lines 241-244: the logger writes to standard error and the
\* construction of the configuration begins; nothing is assigned or logged yet
Init == InitAt("config", NoConfig, <<>>)

SetGame(g) ==
    /\ config' = g.config
    /\ state' = g.state
    /\ stateLog' = g.stateLog
    /\ round' = g.round

\* main(), line 244: config = GameConfig()
Configure ==
    /\ pc = "config"
    /\ config' = GameConfig
    /\ log' = log \o ConfigLog(GameConfig)
    /\ pc' = "validate"
    /\ UNCHANGED <<state, stateLog, round, input, promptOut, out, err, exc, caught, prev,
                   lastSet, nPrompt, nRead, nDispatch, exitStatus>>

\* main(), line 245: config.validate(); an exception ends the process
Validate ==
    /\ pc = "validate"
    /\ LET r == validate(config)
       IN /\ exc' = (IF r = "ok" THEN "none" ELSE r)
          /\ pc' = (IF r = "ok" THEN "construct" ELSE "crashed")
          /\ exitStatus' = (IF r = "ok" THEN -1 ELSE 1)
    /\ UNCHANGED <<config, state, stateLog, round, input, promptOut, out, err, log, caught,
                   prev, lastSet, nPrompt, nRead, nDispatch>>

\* main(), line 247: game = Game(config)
Construct ==
    /\ pc = "construct"
    /\ SetGame(NewGame(config))
    /\ log' = log \o LogLines(NewGame(config).logged)
    /\ pc' = "start"
    /\ UNCHANGED <<input, promptOut, out, err, exc, caught, prev, lastSet, nPrompt, nRead,
                   nDispatch, exitStatus>>

\* main(), line 248: game.start()
Start ==
    /\ pc = "start"
    /\ SetGame(start(game))
    /\ log' = log \o LogLines(start(game).logged)
    /\ pc' = "loop"
    /\ UNCHANGED <<input, promptOut, out, err, exc, caught, prev, lastSet, nPrompt, nRead,
                   nDispatch, exitStatus>>

\* what the statement main() is at would do
StartupEvents ==
    IF pc = "config" THEN SetterEvents(ConfigAssignments(GameConfig))
    ELSE IF pc = "construct" THEN SetterEvents(NewGame(config).logged)
    ELSE IF pc = "start" THEN SetterEvents(start(game).logged)
    ELSE <<>>

\* the interrupt arrives in lines 241-248, outside the try statement: the
\* statement at hand has performed an initial part of its events, all of
\* them when it was about to return, and KeyboardInterrupt ends the process
StartupInterrupt ==
    /\ pc \in {"config", "validate", "construct", "start"}
    /\ \E e \in CutPoints(StartupEvents) :
          LET d == PerformAll(Done(game), SubSeq(StartupEvents, 1, e))
          IN /\ SetGame(d.game)
             /\ log' = log \o d.log
    /\ exc' = "KeyboardInterrupt"
    /\ caught' = FALSE
    /\ pc' = "crashed"
    /\ exitStatus' = -2
    /\ UNCHANGED <<input, promptOut, out, err, prev, lastSet, nPrompt, nRead, nDispatch>>

\* the condition of the while loop, line 251
Continue(g) == has_started(g) /\ ~has_stopped(g)

\* the value text a set that returned has stored, per setting
Recorded(ls, line, o) ==
    LET sp == shlex_split(strip(line))
    IN IF /\ line # <<>> /\ sp.ok /\ Len(sp.toks) = 3 /\ sp.toks[1] = A_set
          /\ IsSetting(sp.toks[2]) /\ o.exc = "none"
       THEN [ls EXCEPT ![AttrOf(sp.toks[2])] = Text(sp.toks[3])]
       ELSE ls

\* one iteration of the loop, line 252, when input() returns a line: the
\* prompt is written, the line is read and processed.  When the prompt
\* cannot be rendered the exception ends the process before input() is called.
ReadLine(line) ==
    /\ pc = "loop"
    /\ Continue(game)
    /\ nRead < MaxReads
    /\ \E nows \in Clock(game) :
       \E o \in {process_user_input(game, line)}, p \in {prompt(game, nows)} :
          IF p.exc # "none"
          THEN /\ exc' = p.exc
               /\ caught' = FALSE
               /\ pc' = "crashed"
               /\ exitStatus' = 1
               /\ input' = NoInput
               /\ prev' = Snapshot(game)
               /\ promptOut' = <<>>
               /\ out' = <<>>
               /\ err' = <<>>
               /\ log' = <<>>
               /\ UNCHANGED <<config, state, stateLog, round, lastSet, nPrompt, nRead,
                              nDispatch>>
          ELSE /\ promptOut' = p.text
               /\ input' = [kind |-> "line", text |-> line]
               /\ prev' = Snapshot(game)
               /\ SetGame(o.game)
               /\ out' = o.out
               /\ err' = o.err
               /\ log' = LogLines(o.game.logged)
               /\ exc' = o.exc
               /\ caught' = o.caught
               /\ lastSet' = Recorded(lastSet, line, o)
               /\ nPrompt' = nPrompt + 1
               /\ nRead' = nRead + 1
               /\ nDispatch' = nDispatch + (IF o.dispatched THEN 1 ELSE 0)
               /\ pc' = (IF o.exc # "none" /\ ~o.caught THEN "crashed" ELSE "loop")
               /\ exitStatus' = (IF o.exc # "none" /\ ~o.caught THEN 1 ELSE -1)

\* whether the action had been looked up when the interrupt arrived
Dispatches(o, e) == IF ~o.dispatched THEN {0} ELSE IF e > 0 THEN {1} ELSE {0, 1}

\* line 252 when input() returns a line and the interrupt arrives while the
\* line is processed: the call has performed an initial part of its events,
\* all of them when it was about to return, and main() enters its handler
ReadLineInterrupted(line) ==
    /\ pc = "loop"
    /\ Continue(game)
    /\ nRead < MaxReads
    /\ \E o \in {process_user_input(game, line)}, nows \in Clock(game) :
          /\ prompt(game, nows).exc = "none"
          /\ promptOut' = prompt(game, nows).text
          /\ \E e \in CutPoints(Events(o)) :
                /\ \E d \in {PerformAll(Done(game), SubSeq(Events(o), 1, e))} :
                      /\ SetGame(d.game)
                      /\ out' = d.out
                      /\ err' = d.err
                      /\ log' = d.log
                /\ \E n \in Dispatches(o, e) : nDispatch' = nDispatch + n
                /\ lastSet' \in {lastSet} \cup
                                (IF e = Len(Events(o)) THEN {Recorded(lastSet, line, o)} ELSE {})
    /\ input' = [kind |-> "cut", text |-> line]
    /\ prev' = Snapshot(game)
    /\ exc' = "KeyboardInterrupt"
    /\ caught' = TRUE
    /\ nPrompt' = nPrompt + 1
    /\ nRead' = nRead + 1
    /\ pc' = "handler"
    /\ UNCHANGED exitStatus

\* line 252 when input() raises: main() enters its handler
InputRaises(kind, exception) ==
    /\ pc = "loop"
    /\ Continue(game)
    /\ \E nows \in Clock(game) :
          /\ prompt(game, nows).exc = "none"
          /\ promptOut' = prompt(game, nows).text
    /\ input' = [kind |-> kind, text |-> <<>>]
    /\ prev' = Snapshot(game)
    /\ out' = <<>>
    /\ err' = <<>>
    /\ log' = <<>>
    /\ exc' = exception
    /\ caught' = TRUE
    /\ nPrompt' = nPrompt + 1
    /\ pc' = "handler"
    /\ UNCHANGED <<config, state, stateLog, round, lastSet, nRead, nDispatch, exitStatus>>

\* end of input at input()
ReadEOF == InputRaises("eof", "EOFError")

\* the user's interrupt at input()
ReadInterrupt == InputRaises("interrupt", "KeyboardInterrupt")

\* the interrupt arrives in the try statement between two iterations: after
\* the last command has returned, before the next prompt is written
LoopInterrupt ==
    /\ pc = "loop"
    /\ input' = NoInput
    /\ prev' = Snapshot(game)
    /\ promptOut' = <<>>
    /\ out' = <<>>
    /\ err' = <<>>
    /\ log' = <<>>
    /\ exc' = "KeyboardInterrupt"
    /\ caught' = TRUE
    /\ pc' = "handler"
    /\ UNCHANGED <<config, state, stateLog, round, lastSet, nPrompt, nRead, nDispatch,
                   exitStatus>>

\* lines 253-255: the handler writes the newline and calls game.stop();
\* main() returns and sys.exit(None) ends the process
Handle ==
    /\ pc = "handler"
    /\ SetGame(stop(game))
    /\ out' = Append(out, NewLine)
    /\ log' = log \o LogLines(stop(game).logged)
    /\ pc' = "exited"
    /\ exitStatus' = 0
    /\ UNCHANGED <<input, promptOut, err, exc, caught, prev, lastSet, nPrompt, nRead,
                   nDispatch>>

\* a second interrupt arrives in the handler or after it: the handler has
\* performed an initial part of its events and KeyboardInterrupt ends the process
HandleInterrupted ==
    /\ pc = "handler"
    /\ \E e \in 0..Len(HandlerEvents(game)) :
          LET d == PerformAll(Done(game), SubSeq(HandlerEvents(game), 1, e))
          IN /\ SetGame(d.game)
             /\ out' = out \o d.out
             /\ log' = log \o d.log
    /\ exc' = "KeyboardInterrupt"
    /\ caught' = FALSE
    /\ pc' = "crashed"
    /\ exitStatus' = -2
    /\ UNCHANGED <<input, promptOut, err, prev, lastSet, nPrompt, nRead, nDispatch>>

\* the loop condition is false: main() returns and sys.exit(None) ends the process
LoopExit ==
    /\ pc = "loop"
    /\ ~Continue(game)
    /\ pc' = "exited"
    /\ exitStatus' = 0
    /\ UNCHANGED <<config, state, stateLog, round, input, promptOut, out, err, log, exc,
                   caught, prev, lastSet, nPrompt, nRead, nDispatch>>

\* the lines during whose processing the interrupt is explored
InterruptLines ==
    { <<>>,
      A_quit,
      W_foo,
      A_get \o <<" ">> \o S_edge,
      A_set \o <<" ">> \o S_edge \o <<" ", "5">>,
      A_set \o <<" ">> \o S_soldiers \o <<" ", "a", "b", "c">>,
      A_quit \o <<" ">> \o W_now }

Read == \E line \in InputLines : ReadLine(line)

ReadCut == \E line \in InterruptLines : ReadLineInterrupted(line)

Next ==
    \/ Configure
    \/ Validate
    \/ Construct
    \/ Start
    \/ StartupInterrupt
    \/ Read
    \/ ReadCut
    \/ ReadEOF
    \/ ReadInterrupt
    \/ LoopInterrupt
    \/ Handle
    \/ HandleInterrupted
    \/ LoopExit

Spec == Init /\ [][Next]_vars

(***************************************************************************)
(* GameConfig.validate on arbitrary constructor arguments:                 *)
(* GameConfig(edge, prompt, soldiers).validate().                          *)
(***************************************************************************)
ValidateInts == {-1, 0, 1, 2, 3, 4, 5, 9, 10, 19, 20, 21, 100, 399, 400, 401, 441}
ValidateEdges == {IntV(n) : n \in ValidateInts} \cup {StrV(<<"3">>), BoolV(TRUE)}
ValidateSoldiers == {IntV(n) : n \in ValidateInts} \cup {StrV(<<"5">>), BoolV(TRUE)}

InitValidate ==
    \E e \in ValidateEdges, n \in ValidateSoldiers :
        InitWith([edge |-> e, prompt |-> StrV(PROMPT), soldiers |-> n])

SpecValidate == InitValidate /\ [][Validate]_vars

(***************************************************************************)
(* Properties.                                                             *)
(***************************************************************************)
LifecyclePath == <<"UNSTARTED", "STARTING", "STARTED", "STOPPING", "STOPPED">>

IsPrefix(a, b) == Len(a) <= Len(b) /\ SubSeq(b, 1, Len(a)) = a

\* the lines read in the loop of main() entered in any state
LoopLines ==
    { <<>>,
      A_quit,
      W_foo,
      A_get \o <<" ">> \o S_edge,
      A_set \o <<" ">> \o S_edge \o <<" ", "5">>,
      A_quit \o <<" ">> \o W_now }

\* the lines read when the prompt is examined
RenderLines ==
    { <<>>,
      A_get \o <<" ">> \o S_prompt,
      A_set \o <<" ">> \o S_edge \o <<" ", "5">>,
      A_set \o <<" ">> \o S_prompt \o <<" ", "\"", "r", "=", "%", "r", " ", "\"">>,
      A_set \o <<" ">> \o S_prompt \o <<" ", "%", "z">>,
      A_set \o <<" ">> \o S_prompt \o <<" ", "%", "z", "%", "t">> }

\* the words of every line explored, as process_user_input splits them
LineWords ==
    [l \in InputLines \cup LoopLines \cup RenderLines |-> shlex_split(strip(l))]

\* the words of the line that input() returned
Words(inp) == LineWords[inp.text]

\* the last input() returned a line that splits into the words toks
IsCommand(inp, toks) ==
    /\ inp.kind = "line"
    /\ inp.text # <<>>
    /\ Words(inp).ok
    /\ Words(inp).toks = toks

\* the last input() returned a line that splits into n words, the first being verb
IsCall(inp, verb, n) ==
    /\ inp.kind = "line"
    /\ inp.text # <<>>
    /\ Words(inp).ok
    /\ Len(Words(inp).toks) = n
    /\ Words(inp).toks[1] = verb

ErrorLine(lit, arg) == [lit |-> "ERROR: " \o lit, arg |-> arg]

\* C1: the session state only moves along UNSTARTED -> STARTING -> STARTED ->
\* STOPPING -> STOPPED: every step extends the sequence of assigned states,
\* that sequence is always an initial part of the path (no state is skipped,
\* none is revisited), and STOPPED is never left.
C1_LifecycleMonotonic ==
    [][ /\ IsPrefix(stateLog, stateLog')
        /\ IsPrefix(stateLog', LifecyclePath)
        /\ state' = (IF stateLog' = <<>> THEN "None" ELSE stateLog'[Len(stateLog')])
        /\ (state = "STOPPED" => state' = "STOPPED") ]_vars

QuitDone == pc \in {"loop", "exited"} /\ state = "STOPPED" /\ IsCommand(input, <<A_quit>>)

\* C2: processing quit without arguments in STARTED assigns STOPPING and then
\* STOPPED, after which the loop condition is false and nothing more is
\* prompted for, read or dispatched: from the loop main() returns, or the
\* interrupt takes it to its handler.
C2_QuitStopsLoop ==
    [][ /\ (nRead' = nRead + 1 /\ state = "STARTED" /\ IsCommand(input', <<A_quit>>))
            => /\ stateLog' = stateLog \o <<"STOPPING", "STOPPED">>
               /\ state' = "STOPPED"
               /\ ~(has_started(game') /\ ~has_stopped(game'))
               /\ pc' = "loop"
        /\ (state = "STOPPED" /\ stateLog = LifecyclePath)
            => /\ nPrompt' = nPrompt /\ nRead' = nRead /\ nDispatch' = nDispatch
               /\ err' = err
               /\ pc' \in {"exited", "handler", "crashed"}
        /\ QuitDone => (pc = "loop" => pc' \in {"exited", "handler"}) ]_vars

C2_Witness ==
    /\ QuitDone
    /\ pc = "exited"
    /\ state = "STOPPED"
    /\ nRead = 2
    /\ nPrompt = 2

\* C3: every error raised while processing a line is caught in
\* process_user_input and written as exactly one ERROR line; the session
\* stays STARTED and the loop goes on.
C3_ErrorsStayLocal ==
    (input.kind = "line" /\ exc # "none")
        => /\ caught
           /\ Len(err) = 1
           /\ out = <<>>
           /\ state = "STARTED"
           /\ pc = "loop"

\* C4: a line that is empty or only whitespace writes nothing, raises
\* nothing, changes neither state, round nor configuration, and the loop
\* goes on.
C4_BlankLineIsNoOp ==
    (input.kind = "line" /\ strip(input.text) = <<>>)
        => /\ out = <<>>
           /\ err = <<>>
           /\ exc = "none"
           /\ Snapshot(game) = prev
           /\ pc = "loop"

InBounds(cfg) ==
    /\ cfg.edge.t = "int"
    /\ cfg.soldiers.t = "int"
    /\ cfg.edge.i >= 2 /\ cfg.edge.i <= 20
    /\ cfg.soldiers.i >= 2 /\ cfg.soldiers.i <= cfg.edge.i * cfg.edge.i

\* C5: in every state of a session the configuration is within its bounds:
\* edge in [2,20] and soldiers in [2, edge squared].
C5_ConfigInBounds == (state # "None") => InBounds(config)

\* a set of an integer setting whose value converts but is out of bounds
SetOutOfBounds ==
    /\ IsCall(input, A_set, 3)
    /\ Words(input).toks[2] \in {S_edge, S_soldiers}
    /\ int_ok(Words(input).toks[3])
    /\ LET n == int_value(Words(input).toks[3])
       IN IF Words(input).toks[2] = S_edge
          THEN n < 2 \/ n > 20
          ELSE n < 2 \/ n > prev.config.edge.i * prev.config.edge.i

\* C6: a set whose value converts but fails the bounds is reported as one
\* illegal-value ERROR line naming the setting, leaves the configuration as
\* it was, and the loop goes on.
C6_OutOfBoundsRejected ==
    SetOutOfBounds
        => /\ err = <<ErrorLine("Illegal value for setting: ", Words(input).toks[2])>>
           /\ out = <<>>
           /\ config = prev.config
           /\ pc = "loop"

\* a value of one digit more than int() converts
TooManyDigits == [k \in 1..(MAX_STR_DIGITS + 1) |-> "1"]

\* a set of an integer setting whose value is not the text of an integer
SetNotInteger ==
    /\ IsCall(input, A_set, 3)
    /\ Words(input).toks[2] \in {S_edge, S_soldiers}
    /\ ~int_ok(Words(input).toks[3])

\* C7: a set of edge or soldiers whose value does not parse as an integer
\* writes ERROR: Illegal value for setting: <setting> and leaves the whole
\* configuration unchanged, so a get of the setting gives the same text as
\* before.  A value of more digits than int() converts does not parse
\* either: on the game main() has started, set fails on it with the same
\* error and assigns nothing.
C7_NotIntegerRejected ==
    /\ (pc = "loop" /\ nRead = 0)
        => \A nm \in {S_edge, S_soldiers} :
               SetSetting_run(game, <<nm, TooManyDigits>>)
                   = Raises(game, "GameActionError", "Illegal value for setting: ", nm)
    /\ SetNotInteger
        => /\ err = <<ErrorLine("Illegal value for setting: ", Words(input).toks[2])>>
           /\ out = <<>>
           /\ log = <<>>
           /\ config = prev.config
           /\ config.edge.t = "int" /\ config.soldiers.t = "int"
           /\ GetSetting_run(game, <<Words(input).toks[2]>>).ret
                  = Text(repr(prev.config[AttrOf(Words(input).toks[2])]))
           /\ pc = "loop"

C7_Witness ==
    /\ IsCommand(input, <<A_set, S_soldiers, <<"a","b","c">> >>)
    /\ lastSet.soldiers = Text(<<"0","5">>)
    /\ config.soldiers = IntV(5)
    /\ Len(err) = 1

\* the text get must give for a setting: the default, or the value of the
\* last set of that setting that returned
ExpectedText(attr) ==
    IF attr = "prompt"
    THEN repr_str(IF lastSet.prompt.some THEN lastSet.prompt.s ELSE PROMPT)
    ELSE IF lastSet[attr].some THEN repr_int(int_value(lastSet[attr].s))
    ELSE IF attr = "edge" THEN <<"2", "0">>
    ELSE <<"2">>

\* C8: get <setting> writes the canonical text of the setting's current
\* value: the default before any set of it (20 for edge, 2 for soldiers),
\* afterwards the value of the most recent set of it that succeeded,
\* whatever other commands came in between.
C8_GetGivesLastSet ==
    \A nm \in {S_edge, S_soldiers, S_prompt} :
        IsCommand(input, <<A_get, nm>>)
            => /\ out = <<[lit |-> "", arg |-> ExpectedText(AttrOf(nm))]>>
               /\ err = <<>>
               /\ log = <<>>
               /\ config = prev.config

C8_Witness ==
    /\ IsCommand(input, <<A_get, S_soldiers>>)
    /\ nRead = 3
    /\ lastSet.soldiers = Text(<<"0","5">>)
    /\ lastSet.edge = Text(<<"2","1">>)
    /\ out = <<[lit |-> "", arg |-> <<"5">>]>>

\* C9: for integer edge and soldiers validate() succeeds exactly when edge is
\* in [2,20] and soldiers in [2, edge squared]; it fails when either is not
\* an integer.
C9_ValidateExact ==
    (pc \in {"construct", "crashed"} /\ state = "None")
        => ((exc = "none") <=> InBounds(config))

\* the last line's verb is not one of get, set, quit
UnknownVerb ==
    /\ input.kind = "line"
    /\ input.text # <<>>
    /\ Words(input).ok
    /\ Words(input).toks # <<>>
    /\ Words(input).toks[1] \notin {A_get, A_set, A_quit}

\* C10: a verb outside {get, set, quit}, with any arguments, writes exactly
\* the line ERROR: Unknown action: <verb> to standard error, nothing to
\* standard output, and leaves state, round and configuration unchanged.
C10_UnknownVerb ==
    UnknownVerb
        => /\ err = <<ErrorLine("Unknown action: ", Words(input).toks[1])>>
           /\ out = <<>>
           /\ log = <<>>
           /\ Snapshot(game) = prev
           /\ stateLog = <<"UNSTARTED", "STARTING", "STARTED">>
           /\ pc = "loop"

C10_Witness ==
    /\ IsCommand(input, <<W_Quit>>)
    /\ nRead = 2
    /\ state = "STARTED"
    /\ err = <<[lit |-> "ERROR: Unknown action: ", arg |-> W_Quit]>>
SettingNames == {S_edge, S_soldiers, S_prompt}

\* the last line is get <name> or set <name> <value>
NamesSetting ==
    IsCall(input, A_get, 2) \/ IsCall(input, A_set, 3)

\* C11: get and set accept exactly the names edge, soldiers and prompt: with
\* any other name (validate, Edge, bogus) both write ERROR: Unknown setting:
\* <name> and change nothing; with one of the three neither reports an
\* unknown setting.
C11_SettingNames ==
    NamesSetting
        => IF Words(input).toks[2] \in SettingNames
           THEN /\ exc \in {"none", "GameActionError"}
                /\ \A e \in 1..Len(err) : err[e].lit # "ERROR: Unknown setting: "
                /\ (IsCall(input, A_get, 2) => exc = "none" /\ Len(out) = 1)
           ELSE /\ err = <<ErrorLine("Unknown setting: ", Words(input).toks[2])>>
                /\ out = <<>>
                /\ Snapshot(game) = prev
                /\ pc = "loop"

C11_Witness ==
    /\ IsCommand(input, <<A_set, S_validate, <<"5">> >>)
    /\ nRead = 2
    /\ err = <<[lit |-> "ERROR: Unknown setting: ", arg |-> S_validate]>>
    /\ config = prev.config

\* C12: an action given too few arguments names the first missing one and
\* changes nothing: get and set alone write ERROR: Missing argument: setting,
\* set <setting> alone writes ERROR: Missing argument: value, whether or not
\* <setting> is a known setting.
C12_MissingArgument ==
    /\ (IsCall(input, A_get, 1) \/ IsCall(input, A_set, 1))
        => /\ err = <<ErrorLine("Missing argument: setting", <<>>)>>
           /\ out = <<>>
           /\ Snapshot(game) = prev
           /\ pc = "loop"
    /\ IsCall(input, A_set, 2)
        => /\ err = <<ErrorLine("Missing argument: value", <<>>)>>
           /\ out = <<>>
           /\ Snapshot(game) = prev
           /\ pc = "loop"

C12_Witness ==
    /\ IsCommand(input, <<A_set, W_bogus>>)
    /\ nRead = 2
    /\ err = <<[lit |-> "ERROR: Missing argument: value", arg |-> <<>>]>>
\* the process has ended: main() has returned or an exception has left it
Ended == pc \in {"exited", "crashed"}

\* the process was ended by an interrupt that arrived outside the try
\* statement of main()
Killed == pc = "crashed" /\ exc = "KeyboardInterrupt"

\* C13: end of input or an interrupt at input() in state STARTED is caught,
\* stop() runs once (STOPPING, then STOPPED), the loop is left and nothing is
\* dispatched afterwards; hence a run that has ended, and that no further
\* interrupt has killed, is in state STOPPED.
C13_InputEndStops ==
    /\ input.kind \in {"eof", "interrupt"}
        => /\ prev.state = "STARTED"
           /\ pc \in {"handler", "exited", "crashed"}
           /\ (pc = "exited") => (caught /\ stateLog = LifecyclePath /\ state = "STOPPED")
    /\ (Ended /\ ~Killed /\ state # "None") => state = "STOPPED"

\* C14: every run that ends, whatever the lines were, ends with exit status 0
\* and in state STOPPED (a run killed by an interrupt outside the try
\* statement of main() aside).
C14_ExitStatusZero ==
    (exitStatus # -1 /\ ~Killed /\ state # "None") => (exitStatus = 0 /\ state = "STOPPED")

\* the lines process_user_input wrote for the last line (the records of the
\* logger, the diagnostic trace of the setters, are in log)
Written == Len(out) + Len(err)

IsErrorLine(l) == l.lit \in {"ERROR: Unknown action: ", "ERROR: Unknown setting: ",
                             "ERROR: Illegal value for setting: ",
                             "ERROR: Missing argument: setting",
                             "ERROR: Missing argument: value"}

\* C17: a processed command writes at most one line: a get that succeeds one
\* line to standard output and none to standard error, a set or quit that
\* succeeds nothing, a command that fails exactly one ERROR line to standard
\* error and nothing to standard output.
C17_OneLinePerCommand ==
    (input.kind = "line" /\ strip(input.text) # <<>>)
        => /\ Written <= 1
           /\ (exc = "none" /\ IsCall(input, A_get, 2)) => (Len(out) = 1 /\ err = <<>>)
           /\ (exc = "none" /\ ~IsCall(input, A_get, 2)) => Written = 0
           /\ (exc # "none") => (out = <<>> /\ Len(err) = 1 /\ IsErrorLine(err[1]))
(***************************************************************************)
(* The prompt on arbitrary templates and rounds: a started game whose      *)
(* template and round are drawn from the sets below, in the loop of main().*)
(***************************************************************************)
T_round == <<"r", "=", "%", "r", " ">>
T_unknown == <<"%", "z">>
RenderChars == {"%", "r", "t", "z"}
RenderTemplates ==
    {PROMPT, T_round, T_unknown, <<>>, <<"%">>, <<"a", "%">>, <<"%", "r", "r">>,
     <<"%", "%", "r">>, <<"%", "t", "%", "r", "%", "t">>, <<"%", "z", "%", "t">>}
    \cup {<<a, b>> : a \in RenderChars, b \in RenderChars}
RenderRounds == {0, 3, 12}
\* GameConfig(prompt=...): validate() does not look at the prompt
RenderPrompts == {StrV(tpl) : tpl \in RenderTemplates} \cup {IntV(7)}
InitRender ==
    \E tpl \in RenderPrompts, r \in RenderRounds :
        /\ pc = "loop"
        /\ config = [GameConfig EXCEPT !.prompt = tpl]
        /\ state = "STARTED"
        /\ stateLog = <<"UNSTARTED", "STARTING", "STARTED">>
        /\ round = r
        /\ input = NoInput
        /\ promptOut = <<>>
        /\ out = <<>>
        /\ err = <<>>
        /\ log = StartupLog([GameConfig EXCEPT !.prompt = tpl],
                            <<"UNSTARTED", "STARTING", "STARTED">>)
        /\ exc = "none"
        /\ caught = FALSE
        /\ prev = [config |-> [GameConfig EXCEPT !.prompt = tpl],
                   state |-> "STARTED", round |-> r]
        /\ lastSet = [edge |-> NoText, prompt |-> NoText, soldiers |-> NoText]
        /\ nPrompt = 0
        /\ nRead = 0
        /\ nDispatch = 0
        /\ exitStatus = -1

ReadRender == \E line \in RenderLines : ReadLine(line)

ReadCutRender == \E line \in RenderLines : ReadLineInterrupted(line)

NextRender ==
    \/ ReadRender
    \/ ReadCutRender
    \/ ReadEOF
    \/ ReadInterrupt
    \/ LoopInterrupt
    \/ Handle
    \/ HandleInterrupted

SpecRender == InitRender /\ [][NextRender]_vars

\* a placeholder of a registered key starts at position k of the template
PlaceholderAt(tpl, k) == k < Len(tpl) /\ tpl[k] = "%" /\ tpl[k + 1] \in {"t", "r"}

\* the number of placeholders %t that start at or before position k
TimeIndex(tpl, k) == Cardinality({j \in 1..k : PlaceholderAt(tpl, j) /\ tpl[j + 1] = "t"})

\* what position k of the template contributes to the prompt
PromptPiece(tpl, k, rnd, nows) ==
    IF PlaceholderAt(tpl, k)
    THEN (IF tpl[k + 1] = "t" THEN nows[TimeIndex(tpl, k)] ELSE repr_int(rnd))
    ELSE IF k > 1 /\ PlaceholderAt(tpl, k - 1) THEN <<>>
    ELSE <<tpl[k]>>

RECURSIVE PromptFrom(_, _, _, _)
PromptFrom(tpl, k, rnd, nows) ==
    IF k > Len(tpl) THEN <<>>
    ELSE PromptPiece(tpl, k, rnd, nows) \o PromptFrom(tpl, k + 1, rnd, nows)

\* C15: every prompt written is the current template with each %t replaced
\* by a time (the clock is read anew for each of them) and each %r by the
\* current round, every other character
\* (an unregistered %z included) copied as it is; the template r=%r  with
\* round 3 gives r=3 ; the template in force is the one of the last set
\* prompt that succeeded, from the very next prompt on.
C15_PromptRendered ==
    [][ (nPrompt' = nPrompt + 1)
            => /\ config.prompt.t = "str"
               /\ \E nows \in Clock(game) :
                      promptOut' = PromptFrom(config.prompt.s, 1, round, nows)
               /\ (config.prompt.s = T_round /\ round = 3)
                      => promptOut' = <<"r", "=", "3", " ">>
               /\ (config.prompt.s = T_unknown) => promptOut' = T_unknown
               /\ lastSet.prompt.some => config.prompt.s = lastSet.prompt.s ]_vars

C15_Witness ==
    /\ nRead = 2
    /\ round = 3
    /\ lastSet.prompt = Text(T_round)
    /\ prev.config.prompt = StrV(T_round)
    /\ input.kind = "line"
    /\ input.text = <<>>
    /\ promptOut = <<"r", "=", "3", " ">>
(***************************************************************************)
(* The loop of main() entered with a game in any state of the lifecycle    *)
(* (a game that was never started is in UNSTARTED).                        *)
(***************************************************************************)
\* the states assigned up to and including st
PathTo(st) ==
    SubSeq(LifecyclePath, 1, CHOOSE k \in 1..Len(LifecyclePath) : LifecyclePath[k] = st)

InitLoop ==
    \E st \in GameStates :
        /\ pc = "loop"
        /\ config = GameConfig
        /\ state = st
        /\ stateLog = PathTo(st)
        /\ round = 0
        /\ input = NoInput
        /\ promptOut = <<>>
        /\ out = <<>>
        /\ err = <<>>
        /\ log = StartupLog(GameConfig, PathTo(st))
        /\ exc = "none"
        /\ caught = FALSE
        /\ prev = [config |-> GameConfig, state |-> st, round |-> 0]
        /\ lastSet = [edge |-> NoText, prompt |-> NoText, soldiers |-> NoText]
        /\ nPrompt = 0
        /\ nRead = 0
        /\ nDispatch = 0
        /\ exitStatus = -1

ReadLoop == \E line \in LoopLines : ReadLine(line)

ReadCutLoop == \E line \in LoopLines : ReadLineInterrupted(line)

NextLoop ==
    \/ ReadLoop
    \/ ReadCutLoop
    \/ ReadEOF
    \/ ReadInterrupt
    \/ LoopInterrupt
    \/ Handle
    \/ HandleInterrupted
    \/ LoopExit

SpecLoop == InitLoop /\ [][NextLoop]_vars

\* C16: the loop condition is true exactly in STARTING and STARTED; in
\* UNSTARTED, STOPPING and STOPPED the loop body does not run: main() returns
\* without a prompt, a read, a dispatch or an error (unless the interrupt
\* arrives before the condition is tested).
C16_LoopCondition ==
    /\ []((has_started(game) /\ ~has_stopped(game)) <=> state \in {"STARTING", "STARTED"})
    /\ [][ (pc = "loop" /\ ~(input'.kind = "none" /\ exc' = "KeyboardInterrupt"))
            => IF state \in {"STARTING", "STARTED"}
               THEN nPrompt' = nPrompt + 1
               ELSE /\ pc' = "exited"
                    /\ nPrompt' = nPrompt /\ nRead' = nRead /\ nDispatch' = nDispatch
                    /\ exc' = exc /\ out' = out /\ err' = err
                    /\ state' = state
                    /\ exitStatus' = 0 ]_vars

C16_Witness ==
    /\ state = "UNSTARTED"
    /\ stateLog = <<"UNSTARTED">>
    /\ pc = "exited"
    /\ nPrompt = 0
    /\ nRead = 0
    /\ exc = "none"
    /\ exitStatus = 0
\* C18: round is 0 when the game is constructed, is never negative, is
\* changed by no command and no lifecycle transition, and the prompt can
\* read it in every state, STOPPED included.
C18_RoundUntouched ==
    /\ [](state # "None" => round = 0)
    /\ [](round >= 0)
    /\ [](prompt([game EXCEPT !.config.prompt = StrV(<<"%", "r">>)], <<>>)
              = [exc |-> "none", text |-> repr_int(round)])
    /\ [][round' = round]_vars

C18_Witness ==
    /\ state = "STOPPED"
    /\ nDispatch = 3
    /\ IsCommand(input, <<A_quit>>)
    /\ lastSet.edge.some
    /\ round = 0

Attrs == {"edge", "prompt", "soldiers"}

\* C19: a set that succeeds changes only the named setting (the other two
\* settings, the state and the round keep their values); get changes
\* nothing; once the loop runs, the state changes only on quit, on end of
\* input and on the interrupt.
C19_FrameOfCommands ==
    /\ []((IsCall(input, A_set, 3) /\ exc = "none")
            => /\ \A a \in Attrs \ {AttrOf(Words(input).toks[2])} :
                      config[a] = prev.config[a]
               /\ state = prev.state
               /\ round = prev.round)
    /\ [](IsCall(input, A_get, 2) => Snapshot(game) = prev)
    /\ [][ (pc \in {"loop", "handler"} /\ state' # state)
            => \/ exc' \in {"EOFError", "KeyboardInterrupt"}
               \/ IsCommand(input', <<A_quit>>) ]_vars

C19_Witness ==
    /\ IsCommand(input, <<A_set, S_edge, <<"5">> >>)
    /\ exc = "none"
    /\ prev.config.edge = IntV(20)
    /\ config.edge = IntV(5)
    /\ prev.config.soldiers = IntV(21)
    /\ config.soldiers = IntV(21)

\* C20: in a session the type of each setting never changes: edge and
\* soldiers hold integers and prompt holds a string after any sequence of
\* set commands, because set converts the text with the type of the
\* setting's current value (set edge 05 stores the integer 5, set prompt 5
\* the string 5).
C20_TypesKept ==
    /\ (state # "None")
        => /\ config.edge.t = "int"
           /\ config.soldiers.t = "int"
           /\ config.prompt.t = "str"
    /\ IsCommand(input, <<A_set, S_edge, <<"0", "5">> >>) => config.edge = IntV(5)
    /\ IsCommand(input, <<A_set, S_prompt, <<"5">> >>) => config.prompt = StrV(<<"5">>)

C20_Witness ==
    /\ IsCommand(input, <<A_set, S_prompt, <<"5">> >>)
    /\ nRead = 3
    /\ lastSet.edge = Text(<<"0", "5">>)
    /\ lastSet.soldiers.some
    /\ config.edge = IntV(5)
    /\ config.prompt = StrV(<<"5">>)
====
